---- MODULE Spec2Model ----
(***************************************************************************)
(* A model of the retrieval core of myaigist_mcp: the VectorStore          *)
(* (mcp_agents/vector_store.py) and the QAAgent that drives it             *)
(* (mcp_agents/qa_agent.py).                                               *)
(*                                                                         *)
(* A Python string is held run-length encoded: a sequence of <<c, n>>      *)
(* pairs, n >= 1 copies of the character c, adjacent runs having different *)
(* characters, so that two strings are equal exactly when their encodings  *)
(* are.  Length, indexing, slicing, trimming, concatenation and whitespace *)
(* normalisation are computed on the encoding as Python computes them on   *)
(* the characters; documents of more than 600 characters stay small.       *)
(* Python's None is the empty tuple and a present value x is <<x>>.        *)
(***************************************************************************)
EXTENDS Integers, Sequences, FiniteSets, TLC

VARIABLES
    documents,   \* QAAgent.documents: the in-memory document records
    vectors,     \* VectorStore.vectors
    metadata,    \* VectorStore.metadata
    dimension,   \* VectorStore.dimension
    file,        \* the persisted file at VectorStore.persist_path
    uuids,       \* how many uuid4() values have been drawn
    clock,       \* how many datetime.now() samples have been drawn
    adds,        \* ghost: how many add_text calls have stored an entry
    texts,       \* how many direct VectorStore.add_text calls have been made
    model,       \* Embedder.model, read from OPENAI_EMBED_MODEL at construction
    embedFailures, \* how many embedding requests have failed so far
    saveFailures,  \* how many save() calls have not written the file so far
    op,          \* history: the last public operation, its inputs and outcomes
    ret,         \* history: what the last public operation returned
    ctx          \* history: the context last handed to _generate_answer

vars == <<documents, vectors, metadata, dimension, file, uuids, clock, adds,
          texts, model, embedFailures, saveFailures, op, ret, ctx>>

-----------------------------------------------------------------------------
(* Bounds of the model.                                                    *)

\* add_document calls that get past input validation, per run.
MaxDocs == 2
\* failures of the environment per run: embedding requests that fail and
\* save() calls that do not write the file.
MaxFailures == 1
\* add_document calls that get past input validation, per run, when the
\* environment never fails (specification SpecQuiet).
MaxQuietDocs == 3
\* direct VectorStore.add_text calls, and add_document calls that get past
\* input validation, per run of specification SpecStore.
MaxTexts == 2
MaxStoreDocs == 1

-----------------------------------------------------------------------------
(* Python values.                                                          *)

None == <<>>
Some(x) == <<x>>
Val(o) == o[1]

\* What a call returned: the value beside the name of its Python type.
PyNone == <<"NoneType", None>>
Str(s) == <<"str", s>>
Bool(b) == <<"bool", b>>
List(l) == <<"list", l>>
Dict(d) == <<"dict", d>>
\* the return value of a function that returns a string or None
Optional(o) == IF o = None THEN PyNone ELSE Str(Val(o))

Min2(a, b) == IF a < b THEN a ELSE b
Max2(a, b) == IF a > b THEN a ELSE b
MinOf(S) == CHOOSE i \in S : \A j \in S : i <= j

\* reversed(s) forgotten: the list in its own order.
ReverseForgotten(s) == s

\* reversed(s)
Reverse(s) == [i \in 1..Len(s) |-> s[Len(s) + 1 - i]]

\* s + t
StrCat(s, t) ==
    IF s = <<>> THEN t
    ELSE IF t = <<>> THEN s
    ELSE IF s[Len(s)][1] = t[1][1]
    THEN SubSeq(s, 1, Len(s) - 1) \o <<<<t[1][1], s[Len(s)][2] + t[1][2]>>>> \o Tail(t)
    ELSE s \o t

\* The string whose characters are chars[lo..hi].
RECURSIVE LitRange(_, _, _)
LitRange(chars, lo, hi) ==
    IF lo > hi THEN <<>>
    ELSE IF lo = hi THEN <<<<chars[lo], 1>>>>
    ELSE StrCat(LitRange(chars, lo, (lo + hi) \div 2),
                LitRange(chars, ((lo + hi) \div 2) + 1, hi))

\* A string literal, given by its characters.
Lit(chars) == LitRange(chars, 1, Len(chars))

\* The number of characters in the first j runs of s.
RECURSIVE Offset(_, _)
Offset(s, j) == IF j = 0 THEN 0 ELSE Offset(s, j - 1) + s[j][2]

\* len(s)
StrLen(s) == Offset(s, Len(s))

\* str.isspace() characters of the model's alphabet.
Whitespace == {" ", "\n", "\t"}

\* s[k] for a Python index k (negative k counts from the end); "IndexError"
\* stands for the exception an index out of range raises.
PyAt(s, k) ==
    LET p == IF k >= 0 THEN k ELSE StrLen(s) + k
    IN IF p < 0 \/ p >= StrLen(s) THEN "IndexError"
       ELSE s[CHOOSE j \in 1..Len(s) : Offset(s, j - 1) <= p /\ p < Offset(s, j)][1]

\* s[a:b]: negative bounds count from the end, both are clamped to the string.
PyBound(s, k) == IF k < 0 THEN Max2(StrLen(s) + k, 0) ELSE Min2(k, StrLen(s))
PySlice(s, a, b) ==
    SelectSeq([j \in 1..Len(s) |->
                  <<s[j][1], Min2(Offset(s, j), PyBound(s, b))
                                - Max2(Offset(s, j - 1), PyBound(s, a))>>],
              LAMBDA run : run[2] > 0)

RECURSIVE LStrip(_)
LStrip(s) == IF s # <<>> /\ Head(s)[1] \in Whitespace THEN LStrip(Tail(s)) ELSE s
RECURSIVE RStrip(_)
RStrip(s) ==
    IF s # <<>> /\ s[Len(s)][1] \in Whitespace THEN RStrip(SubSeq(s, 1, Len(s) - 1))
    ELSE s
\* str.strip()
PyStrip(s) == RStrip(LStrip(s))

\* str(n) for n >= 0
RECURSIVE PyStr(_)
PyStr(n) ==
    LET d == <<"0", "1", "2", "3", "4", "5", "6", "7", "8", "9">>[(n % 10) + 1]
    IN IF n < 10 THEN <<<<d, 1>>>> ELSE StrCat(PyStr(n \div 10), <<<<d, 1>>>>)

\* Whether needle occurs in hay as a substring (needle in hay).
StrContains(hay, needle) ==
    \/ needle = <<>>
    \/ /\ Len(needle) = 1
       /\ \E j \in 1..Len(hay) : hay[j][1] = needle[1][1] /\ hay[j][2] >= needle[1][2]
    \/ /\ Len(needle) >= 2
       /\ \E j \in 1..(Len(hay) - Len(needle) + 1) :
            /\ hay[j][1] = needle[1][1]
            /\ hay[j][2] >= needle[1][2]
            /\ \A k \in 2..(Len(needle) - 1) : hay[j + k - 1] = needle[k]
            /\ hay[j + Len(needle) - 1][1] = needle[Len(needle)][1]
            /\ hay[j + Len(needle) - 1][2] >= needle[Len(needle)][2]

\* {**base, **over}: the keys of over win.
DictMerge(base, over) ==
    [k \in (DOMAIN base) \cup (DOMAIN over) |->
        IF k \in DOMAIN over THEN over[k] ELSE base[k]]

\* list.pop(i) on a list, 0 <= i < len: the list without position i.
ListPop(s, i) == SubSeq(s, 1, i) \o SubSeq(s, i + 2, Len(s))

-----------------------------------------------------------------------------
(* QAAgent._clean_text and QAAgent._chunk_text                             *)

\* re.sub(r'\s+', ' ', text): every maximal run of whitespace characters
\* becomes one space.  A whitespace run of the encoding that follows another
\* one belongs to the same maximal run and is dropped.
CollapseWs(text) ==
    LET keep == SelectSeq([j \in 1..Len(text) |-> j],
                    LAMBDA j : ~(/\ text[j][1] \in Whitespace
                                 /\ j > 1
                                 /\ text[j - 1][1] \in Whitespace))
    IN [k \in 1..Len(keep) |->
          IF text[keep[k]][1] \in Whitespace THEN <<" ", 1>> ELSE text[keep[k]]]

_clean_text(text) == PyStrip(CollapseWs(text))

DefaultChunkSize == 600
DefaultOverlap == 100
\* the backward scan for a sentence end looks at min(100, chunk_size) characters
ScanWindow == 100
Terminators == {".", "!", "?"}

\* The window end with the scan for a sentence end reading the whole window.
ChunkEndScansWindow(text, start, chunk_size) ==
    LET end == start + chunk_size
        hits == {i \in 0..(chunk_size - 1) : PyAt(text, end - i - 1) \in Terminators}
    IN IF end < StrLen(text) /\ hits # {} THEN end - MinOf(hits) ELSE end

\* The end of the window that starts at start: start + chunk_size, moved back
\* to just after the nearest sentence terminator when the window ends inside
\* the text and one of the last min(100, chunk_size) characters is one.
ChunkEnd(text, start, chunk_size) ==
    LET end == start + chunk_size
        hits == {i \in 0..(Min2(ScanWindow, chunk_size) - 1) :
                    PyAt(text, end - i - 1) \in Terminators}
    IN IF end < StrLen(text) /\ hits # {} THEN end - MinOf(hits) ELSE end

\* Whether the backward scan of the window that starts at start reads an
\* index out of range before it finds a terminator.
ScanRaises(text, start, chunk_size) ==
    LET end == start + chunk_size
        scanned == 0..(Min2(ScanWindow, chunk_size) - 1)
        hits == {i \in scanned : PyAt(text, end - i - 1) \in Terminators}
        bad == {i \in scanned : PyAt(text, end - i - 1) = "IndexError"}
    IN end < StrLen(text) /\ bad # {} /\ (hits = {} \/ MinOf(bad) < MinOf(hits))

\* A next start that skips `overlap` characters instead of repeating them.
NextStartSkips(end, overlap) == end + overlap

\* start = end - overlap
NextStart(end, overlap) == end - overlap

\* The while loop of _chunk_text from window start `start` on.
RECURSIVE ChunkLoop(_, _, _, _, _)
ChunkLoop(text, start, chunk_size, overlap, chunks) ==
    IF ~(start < StrLen(text)) THEN chunks
    ELSE LET end == ChunkEnd(text, start, chunk_size)
             chunk == PyStrip(PySlice(text, start, end))
             chunks2 == IF chunk # <<>> THEN Append(chunks, chunk) ELSE chunks
         IN IF NextStart(end, overlap) >= StrLen(text) THEN chunks2
            ELSE ChunkLoop(text, NextStart(end, overlap), chunk_size, overlap, chunks2)

_chunk_text(text, chunk_size, overlap) ==
    IF StrLen(text) <= chunk_size THEN <<text>>
    ELSE ChunkLoop(text, 0, chunk_size, overlap, <<>>)

-----------------------------------------------------------------------------
(* The embedding port (Embedder.create_embedding) and numpy's float32.     *)

\* The power of two that scales |x| into the 24-bit significand of a float32.
RECURSIVE Ulp(_, _)
Ulp(x, u) == IF x < 16777216 * u THEN u ELSE Ulp(x, 2 * u)

\* np.float32(x) of an integer x: exact below 2^24, beyond it rounded to the
\* nearest representable value, ties to the even significand.
Float32(x) ==
    LET a == IF x < 0 THEN -x ELSE x
        u == Ulp(a, 1)
        q == a \div u
        r == a % u
        q2 == IF 2 * r > u \/ (2 * r = u /\ q % 2 = 1) THEN q + 1 ELSE q
    IN IF x < 0 THEN -(q2 * u) ELSE q2 * u

\* np.array(embedding, dtype=np.float32)
np_array(embedding) == [i \in 1..Len(embedding) |-> Float32(embedding[i])]

\* The values OPENAI_EMBED_MODEL takes: the default and a smaller model.
DefaultModel == "text-embedding-3-large"
Models == {DefaultModel, "text-embedding-3-small"}

\* The vector model m answers with for a text.  Its length is the model's
\* (3 for the large model, 2 for the small one); one component depends on the
\* text and one is not representable in float32.
ModelAnswer(m, text) ==
    IF m = DefaultModel THEN <<1, 0, StrLen(text)>>
    ELSE <<16777217, StrLen(text)>>

\* How an embedding request can end: it raises, and create_embedding returns
\* None, or the model answers.
EmbedResults == {"fails", "answers"}
EmbedAnswer(m, text, result) ==
    IF result = "fails" THEN None ELSE Some(ModelAnswer(m, text))
NumFails(results) == Cardinality({i \in DOMAIN results : results[i] = "fails"})

\* create_embedding(text) when the remote model answers `answer`: None for a
\* text that is empty or all whitespace, without a call.
create_embedding(text, answer) ==
    IF text = <<>> \/ StrLen(PyStrip(text)) = 0 THEN None ELSE answer

-----------------------------------------------------------------------------
(* VectorStore.  A store value is the three fields of the object.          *)

EmptyStore == [vectors |-> <<>>, metadata |-> <<>>, dimension |-> None]

TheStore == [vectors |-> vectors, metadata |-> metadata, dimension |-> dimension]

\* f"vec_{n}"
VectorId(n) == StrCat(Lit(<<"v", "e", "c", "_">>), PyStr(n))

\* add_text without `if self.dimension is None`: every vector sets the
\* dimension, so no vector is ever rejected.
add_text_adopts_dimension(s, text, md, answer, src) ==
    IF create_embedding(text, answer) = None THEN [store |-> s, ret |-> None]
    ELSE [store |-> [vectors |-> Append(s.vectors,
                                    [vec |-> np_array(Val(create_embedding(text, answer))),
                                     src |-> src]),
                     metadata |-> Append(s.metadata,
                                    DictMerge([id |-> VectorId(Len(s.vectors)),
                                               text |-> text, src |-> src], md)),
                     dimension |-> Some(Len(Val(create_embedding(text, answer))))],
          ret |-> Some(VectorId(Len(s.vectors)))]

\* add_text storing the vector before it validates the dimension: a
\* rejected vector stays in the list.
add_text_appends_first(s, text, md, answer, src) ==
    IF create_embedding(text, answer) = None THEN [store |-> s, ret |-> None]
    ELSE
        LET vector == np_array(Val(create_embedding(text, answer)))
            s1 == [s EXCEPT !.vectors = Append(@, [vec |-> vector, src |-> src]),
                            !.dimension = IF @ = None THEN Some(Len(vector)) ELSE @]
        IN IF Len(vector) # Val(s1.dimension) THEN [store |-> s1, ret |-> None]
           ELSE [store |-> [s1 EXCEPT !.metadata = Append(@,
                                DictMerge([id |-> VectorId(Len(s.vectors)),
                                           text |-> text, src |-> src], md))],
                 ret |-> Some(VectorId(Len(s.vectors)))]

\* add_text putting the new vector and metadata in front of the lists.
add_text_prepends(s, text, md, answer, src) ==
    IF create_embedding(text, answer) = None THEN [store |-> s, ret |-> None]
    ELSE
        LET vector == np_array(Val(create_embedding(text, answer)))
            s1 == IF s.dimension = None
                  THEN [s EXCEPT !.dimension = Some(Len(vector))]
                  ELSE s
        IN IF Len(vector) # Val(s1.dimension) THEN [store |-> s1, ret |-> None]
           ELSE
             LET vector_id == VectorId(Len(s1.vectors))
                 metadata_with_id ==
                     DictMerge([id |-> vector_id, text |-> text, src |-> src], md)
             IN [store |-> [s1 EXCEPT
                               !.vectors = <<[vec |-> vector, src |-> src]>> \o @,
                               !.metadata = <<metadata_with_id>> \o @],
                 ret |-> Some(vector_id)]

\* add_text(text, metadata) on store s when the remote model answers
\* `answer`.  src is a ghost serial number of the call, carried by the
\* stored vector and by the stored metadata.  The result is the store after
\* the call and the value returned.
add_text(s, text, md, answer, src) ==
    IF create_embedding(text, answer) = None THEN [store |-> s, ret |-> None]
    ELSE
        LET vector == np_array(Val(create_embedding(text, answer)))
            s1 == IF s.dimension = None
                  THEN [s EXCEPT !.dimension = Some(Len(vector))]
                  ELSE s
        IN IF Len(vector) # Val(s1.dimension) THEN [store |-> s1, ret |-> None]
           ELSE
             LET vector_id == VectorId(Len(s1.vectors))
                 metadata_with_id ==
                     DictMerge([id |-> vector_id, text |-> text, src |-> src], md)
             IN [store |-> [s1 EXCEPT
                               !.vectors = Append(@, [vec |-> vector, src |-> src]),
                               !.metadata = Append(@, metadata_with_id)],
                 ret |-> Some(vector_id)]

\* A float that is not a number (0/0 in numpy), and a finite one.
NaN == <<>>
Finite(x) == <<x>>

RECURSIVE SumSq(_)
SumSq(v) == IF v = <<>> THEN 0 ELSE Head(v) * Head(v) + SumSq(Tail(v))

\* np.linalg.norm(v), for vectors whose sum of squares is a perfect square
\* (the norm is then exact in float32).
Norm(v) == CHOOSE r \in 0..SumSq(v) : r * r <= SumSq(v) /\ SumSq(v) < (r + 1) * (r + 1)

RECURSIVE Dot(_, _)
Dot(a, b) == IF a = <<>> THEN 0 ELSE Head(a) * Head(b) + Dot(Tail(a), Tail(b))

\* np.dot(q / norm(q), v / norm(v)), for vectors whose components their norm
\* divides (every quotient is then exact).  A zero norm makes every quotient
\* 0/0, and the dot product not a number.
CosineSimilarity(q, v) ==
    IF Norm(q) = 0 \/ Norm(v) = 0 THEN NaN
    ELSE Finite(Dot([i \in 1..Len(q) |-> q[i] \div Norm(q)],
                    [i \in 1..Len(v) |-> v[i] \div Norm(v)]))

\* similarity >= min_similarity: false for a similarity that is not a number.
SimilarityGeq(similarity, min_similarity) ==
    similarity # NaN /\ similarity[1] >= min_similarity

\* The loop of similarity_search over the stored vectors from position i
\* (from 1) on: the entries that pass min_similarity, in store order.
RECURSIVE SimilaritiesLoop(_, _, _, _, _)
SimilaritiesLoop(s, query_vector, min_similarity, i, similarities) ==
    IF i > Len(s.vectors) THEN similarities
    ELSE LET similarity == CosineSimilarity(query_vector, s.vectors[i].vec)
         IN SimilaritiesLoop(s, query_vector, min_similarity, i + 1,
                IF SimilarityGeq(similarity, min_similarity)
                THEN Append(similarities, [index |-> i - 1,
                                           similarity |-> similarity,
                                           metadata |-> s.metadata[i]])
                ELSE similarities)

\* A sort that puts an entry before the entries of equal similarity.
RECURSIVE SortTiesReversed(_)
SortTiesReversed(similarities) ==
    IF similarities = <<>> THEN <<>>
    ELSE LET front == SortTiesReversed(SubSeq(similarities, 1, Len(similarities) - 1))
             x == similarities[Len(similarities)]
             k == Cardinality({j \in 1..Len(front) :
                                  front[j].similarity[1] > x.similarity[1]})
         IN SubSeq(front, 1, k) \o <<x>> \o SubSeq(front, k + 1, Len(front))

\* similarities.sort(key=similarity, reverse=True): a stable sort, so each
\* entry goes behind the earlier entries of greater or equal similarity.
RECURSIVE SortBySimilarity(_)
SortBySimilarity(similarities) ==
    IF similarities = <<>> THEN <<>>
    ELSE LET front == SortBySimilarity(SubSeq(similarities, 1, Len(similarities) - 1))
             x == similarities[Len(similarities)]
             k == Cardinality({j \in 1..Len(front) :
                                  front[j].similarity[1] >= x.similarity[1]})
         IN SubSeq(front, 1, k) \o <<x>> \o SubSeq(front, k + 1, Len(front))

\* list[:k]
ListHead(list, k) ==
    IF k >= 0 THEN SubSeq(list, 1, Min2(k, Len(list)))
    ELSE SubSeq(list, 1, Max2(Len(list) + k, 0))

\* similarity_search(query, top_k, min_similarity) on store s when the remote
\* model answers `answer` for the query.
similarity_search(s, query, answer, top_k, min_similarity) ==
    IF s.vectors = <<>> THEN <<>>
    ELSE IF create_embedding(query, answer) = None THEN <<>>
    ELSE LET query_vector == np_array(Val(create_embedding(query, answer)))
         IN IF s.dimension = None \/ Len(query_vector) # Val(s.dimension) THEN <<>>
            ELSE ListHead(SortBySimilarity(
                              SimilaritiesLoop(s, query_vector, min_similarity, 1, <<>>)),
                          top_k)

\* sum(vector.nbytes for vector in vectors): 4 bytes per float32 component.
RECURSIVE NBytes(_)
NBytes(vs) == IF vs = <<>> THEN 0 ELSE 4 * Len(Head(vs).vec) + NBytes(Tail(vs))

\* get_stats(), without the path; the memory usage is kept as the pair of
\* the dividend and the divisor.
get_stats(s) ==
    [total_vectors |-> Len(s.vectors),
     dimension |-> s.dimension,
     memory_usage_mb |-> <<NBytes(s.vectors), 1024 * 1024>>]

\* get_by_id(vector_id): the first metadata with that id, or None.
get_by_id(s, vector_id) ==
    LET hits == {i \in 1..Len(s.metadata) : s.metadata[i].id = vector_id}
    IN IF hits = {} THEN None ELSE Some(s.metadata[MinOf(hits)])

\* clear()
clear(s) == EmptyStore

\* The persisted file: missing, a pickle of a store, or bytes pickle cannot
\* read.
FileMissing == [state |-> "missing", data |-> EmptyStore]
FileCorrupt == [state |-> "corrupt", data |-> EmptyStore]
FileOf(s) == [state |-> "data", data |-> s]

\* How a save() call can end: the file is written; the directory is not
\* writable and save returns early; open() truncated the file and the write
\* raised, which save catches.
SaveOutcomes == {"ok", "unwritable", "truncated"}

\* save() pickling the vectors and the metadata but not the dimension.
save_without_dimension(s, f, outcome) ==
    CASE outcome = "ok" -> FileOf([s EXCEPT !.dimension = None])
      [] outcome = "unwritable" -> f
      [] outcome = "truncated" -> FileCorrupt

\* save(): the file after the call.  Nothing is returned or raised.
save(s, f, outcome) ==
    CASE outcome = "ok" -> FileOf(s)
      [] outcome = "unwritable" -> f
      [] outcome = "truncated" -> FileCorrupt

\* load() reading the dimension under a key save() does not write.
load_forgets_dimension(s, f) ==
    CASE f.state = "missing" -> s
      [] f.state = "data" -> [f.data EXCEPT !.dimension = None]
      [] f.state = "corrupt" -> EmptyStore

\* load() leaving the store as it is when the file cannot be read.
load_keeps_on_corrupt(s, f) ==
    CASE f.state = "missing" -> s
      [] f.state = "data" -> f.data
      [] f.state = "corrupt" -> s

\* load(): the store after the call.
load(s, f) ==
    CASE f.state = "missing" -> s
      [] f.state = "data" -> f.data
      [] f.state = "corrupt" -> EmptyStore

-----------------------------------------------------------------------------
(* QAAgent: the pure parts.                                                *)

\* dict.get(k, default)
DictGet(d, k, default) == IF k \in DOMAIN d THEN d[k] ELSE default

\* Python truthiness of a string or None.
Truthy(x) == x # None /\ x # <<>>

\* sep.join(parts)
RECURSIVE Join(_, _)
Join(parts, sep) ==
    IF parts = <<>> THEN <<>>
    ELSE IF Len(parts) = 1 THEN parts[1]
    ELSE StrCat(StrCat(parts[1], sep), Join(Tail(parts), sep))

\* str(uuid.uuid4()): the n-th value drawn; distinct draws are distinct.
Uuid4(n) == StrCat(Lit(<<"u">>), PyStr(n))
\* datetime.now().isoformat() of the n-th sample of the clock.
IsoFormat(n) == StrCat(Lit(<<"T">>), PyStr(n))

Unknown == Lit(<<"U", "n", "k", "n", "o", "w", "n">>)
DocumentPrefix == Lit(<<"D", "o", "c", "u", "m", "e", "n", "t", ":", " ">>)
BlockSeparator == Lit(<<"\n", "\n", "-", "-", "-", "\n", "\n">>)

\* metadata.get('doc_title', metadata.get('title', 'Unknown'))
DocTitleOf(md) == DictGet(md, "doc_title", DictGet(md, "title", Unknown))

\* The position in the list of records `docs` of the one whose field `key`
\* is k, or 0.
IndexOfKey(docs, key, k) ==
    IF \E j \in 1..Len(docs) : docs[j][key] = k
    THEN CHOOSE j \in 1..Len(docs) : docs[j][key] = k
    ELSE 0

\* The loop of list_documents with every entry of a doc_id writing the title
\* and the upload time.
RECURSIVE ListLoopLastWins(_, _, _)
ListLoopLastWins(md, i, docs) ==
    IF i > Len(md) THEN docs
    ELSE
        LET doc_id == DictGet(md[i], "doc_id", None)
            docs1 == IF Truthy(doc_id) /\ IndexOfKey(docs, "doc_id", doc_id) = 0
                     THEN Append(docs, [doc_id |-> doc_id,
                                        title |-> DocTitleOf(md[i]),
                                        upload_time |-> DictGet(md[i], "upload_time", Unknown),
                                        chunk_count |-> 0])
                     ELSE docs
            docs2 == IF Truthy(doc_id)
                     THEN [docs1 EXCEPT
                             ![IndexOfKey(docs1, "doc_id", doc_id)] =
                                 [@ EXCEPT !.chunk_count = @ + 1,
                                           !.title = DocTitleOf(md[i]),
                                           !.upload_time =
                                               DictGet(md[i], "upload_time", Unknown)]]
                     ELSE docs1
        IN ListLoopLastWins(md, i + 1, docs2)

\* The loop of list_documents from metadata position i on; docs is the dict
\* built so far, in insertion order.
RECURSIVE ListLoop(_, _, _)
ListLoop(md, i, docs) ==
    IF i > Len(md) THEN docs
    ELSE
        LET doc_id == DictGet(md[i], "doc_id", None)
            docs1 == IF Truthy(doc_id) /\ IndexOfKey(docs, "doc_id", doc_id) = 0
                     THEN Append(docs, [doc_id |-> doc_id,
                                        title |-> DocTitleOf(md[i]),
                                        upload_time |-> DictGet(md[i], "upload_time", Unknown),
                                        chunk_count |-> 0])
                     ELSE docs
            docs2 == IF Truthy(doc_id)
                     THEN [docs1 EXCEPT ![IndexOfKey(docs1, "doc_id", doc_id)].chunk_count = @ + 1]
                     ELSE docs1
        IN ListLoop(md, i + 1, docs2)

\* list_documents()
list_documents(md) == ListLoop(md, 1, <<>>)

\* The grouping loop of _get_relevant_context from metadata position i on:
\* doc_chunks maps a title to the chunk texts seen under it, insertion order.
RECURSIVE GroupLoop(_, _, _)
GroupLoop(md, i, doc_chunks) ==
    IF i > Len(md) THEN doc_chunks
    ELSE
        LET doc_title == DocTitleOf(md[i])
            g1 == IF IndexOfKey(doc_chunks, "doc_title", doc_title) = 0
                  THEN Append(doc_chunks, [doc_title |-> doc_title, chunks |-> <<>>])
                  ELSE doc_chunks
            g2 == [g1 EXCEPT ![IndexOfKey(g1, "doc_title", doc_title)].chunks =
                        Append(@, DictGet(md[i], "text", <<>>))]
        IN GroupLoop(md, i + 1, g2)

\* _get_relevant_context(question): the question is not read.
_get_relevant_context(docs, md) ==
    IF docs = <<>> /\ md # <<>>
    THEN LET doc_chunks == GroupLoop(md, 1, <<>>)
         IN Join([k \in 1..Len(doc_chunks) |->
                    StrCat(StrCat(StrCat(DocumentPrefix, doc_chunks[k].doc_title),
                                  Lit(<<"\n">>)),
                           Join(doc_chunks[k].chunks, Lit(<<" ">>)))],
                 BlockSeparator)
    ELSE IF docs # <<>>
    THEN LET with_text == SelectSeq(docs, LAMBDA doc : Truthy(DictGet(doc, "text", None)))
         IN Join([k \in 1..Len(with_text) |->
                    StrCat(StrCat(StrCat(DocumentPrefix,
                                         DictGet(with_text[k], "title", Unknown)),
                                  Lit(<<"\n">>)),
                           with_text[k].text)],
                 BlockSeparator)
    ELSE <<>>

\* The chunk loop of add_document from chunk position i (from 1) on.  acc
\* holds the store, the value each add_text call returned, and the ghost
\* serial of the last stored entry.
RECURSIVE AddChunks(_, _, _, _, _)
AddChunks(acc, chunks, i, base, results) ==
    IF i > Len(chunks) THEN acc
    ELSE
        LET md == DictMerge(base, [chunk_index |-> i - 1, text |-> chunks[i]])
            r == add_text(acc.store, chunks[i], md,
                          EmbedAnswer(model, chunks[i], results[i]), acc.adds + 1)
        IN AddChunks([store |-> r.store,
                      results |-> Append(acc.results, r.ret),
                      adds |-> IF r.ret = None THEN acc.adds ELSE acc.adds + 1],
                     chunks, i + 1, base, results)

\* indices_to_remove stopping at the first match.
IndicesToRemoveFirstOnly(md, doc_id) ==
    LET all == SelectSeq([i \in 1..Len(md) |-> i - 1],
                         LAMBDA i : DictGet(md[i + 1], "doc_id", None) = doc_id)
    IN IF all = <<>> THEN <<>> ELSE <<all[1]>>

\* indices_to_remove of delete_document: the positions (from 0) of the
\* metadata whose doc_id is doc_id, ascending.
IndicesToRemove(md, doc_id) ==
    SelectSeq([i \in 1..Len(md) |-> i - 1],
              LAMBDA i : DictGet(md[i + 1], "doc_id", None) = doc_id)

\* The removal loop popping the vector but not the metadata.
RECURSIVE RemoveLoopVectorsOnly(_, _)
RemoveLoopVectorsOnly(s, indices) ==
    IF indices = <<>> THEN s
    ELSE RemoveLoopVectorsOnly(IF Head(indices) < Len(s.vectors)
                               THEN [s EXCEPT !.vectors = ListPop(@, Head(indices))]
                               ELSE s,
                               Tail(indices))

\* The removal loop of delete_document over the indices in the order given.
RECURSIVE RemoveLoop(_, _)
RemoveLoop(s, indices) ==
    IF indices = <<>> THEN s
    ELSE RemoveLoop(IF Head(indices) < Len(s.vectors)
                    THEN [s EXCEPT !.vectors = ListPop(@, Head(indices)),
                                   !.metadata = ListPop(@, Head(indices))]
                    ELSE s,
                    Tail(indices))

-----------------------------------------------------------------------------
(* Inputs.                                                                 *)

\* Shorter than 10 characters once trimmed.
TextTiny == Lit(<<" ", "t", "i", "n", "y", ".", " ">>)
\* One chunk, with whitespace runs to normalise.
TextOne == Lit(<<" ", " ", "O", "n", "e", " ", " ", "s", "h", "o", "r", "t", "\t", "d", "o", "c", ".", " ">>)
\* Longer than one window, with a sentence end inside the scanned tail of the
\* first window: two chunks.
TextTwo == <<<<"a", 570>>, <<".", 1>>, <<" ", 2>>, <<"b", 60>>>>

\* The (text, title) pairs add_document is called with: two of them share a
\* title.
DocInputs == {<<<<>>, Lit(<<"A">>)>>,
              <<TextTiny, Lit(<<"A">>)>>, <<TextOne, Lit(<<"A">>)>>,
              <<TextTwo, Lit(<<"B">>)>>}
Questions == {<<>>, Lit(<<" ", "h", "i", " ">>), Lit(<<"w", "h", "y", " ", "?">>)}
\* What the answer generator does: raises (None) or answers with a text.
GenOutcomes == {None, Some(Lit(<<" ", "o", "k", ".", "\n">>))}

MsgInvalidQuestion == Lit(<<"P", "l", "e", "a", "s", "e", " ", "p", "r", "o", "v", "i", "d", "e", " ", "a", " ", "v", "a", "l", "i", "d", " ", "q", "u", "e", "s", "t", "i", "o", "n", ".">>)
MsgNoDocuments == Lit(<<"N", "o", " ", "d", "o", "c", "u", "m", "e", "n", "t", "s", " ", "h", "a", "v", "e", " ", "b", "e", "e", "n", " ", "u", "p", "l", "o", "a", "d", "e", "d", " ", "y", "e", "t", ".", " ", "P", "l", "e", "a", "s", "e", " ", "u", "p", "l", "o", "a", "d", " ", "a", " ", "d", "o", "c", "u", "m", "e", "n", "t", " ", "f", "i", "r", "s", "t", ",", " ", "t", "h", "e", "n", " ", "a", "s", "k", " ", "y", "o", "u", "r", " ", "q", "u", "e", "s", "t", "i", "o", "n", ".">>)
MsgNoContext == Lit(<<"I", " ", "c", "o", "u", "l", "d", "n", "'", "t", " ", "f", "i", "n", "d", " ", "r", "e", "l", "e", "v", "a", "n", "t", " ", "i", "n", "f", "o", "r", "m", "a", "t", "i", "o", "n", " ", "i", "n", " ", "t", "h", "e", " ", "u", "p", "l", "o", "a", "d", "e", "d", " ", "d", "o", "c", "u", "m", "e", "n", "t", "s", " ", "t", "o", " ", "a", "n", "s", "w", "e", "r", " ", "y", "o", "u", "r", " ", "q", "u", "e", "s", "t", "i", "o", "n", ".">>)
MsgGenerationError == Lit(<<"E", "r", "r", "o", "r", " ", "g", "e", "n", "e", "r", "a", "t", "i", "n", "g", " ", "a", "n", "s", "w", "e", "r", ":", " ">>)
\* str(e) of the exception the generator raised
GenErrorText == Lit(<<"d", "o", "w", "n">>)

-----------------------------------------------------------------------------
(* The state machine.  One action is one public operation, whole.          *)

\* The last operation: its name, the doc_id it was given or drew, what each
\* add_text call of it returned, and how its save() call ended ("none": it
\* made none).
OpRecord(name, doc_id, results, saved) ==
    [name |-> name, doc_id |-> doc_id, results |-> results, save |-> saved]

\* An environment: how many documents a run adds, how many failures it
\* suffers, and the embedding models a restart may select.
Env == [max_docs |-> MaxDocs, max_failures |-> MaxFailures, models |-> Models]
\* The environment that never fails and keeps the default model.
QuietEnv == [max_docs |-> MaxQuietDocs, max_failures |-> 0, models |-> {DefaultModel}]

\* The environment of the runs that also call the store directly.
StoreEnv == [max_docs |-> MaxStoreDocs, max_failures |-> MaxFailures, models |-> Models]

\* Whether the failure budget allows a save() call to end as `outcome`.
SaveFailed(outcome) == IF outcome = "ok" THEN 0 ELSE 1
SaveAllowed(outcome, env) ==
    embedFailures + saveFailures + SaveFailed(outcome) <= env.max_failures

\* A fresh data directory and an agent constructed on it with the default
\* embedding model.
Init ==
    /\ documents = <<>>
    /\ vectors = <<>>
    /\ metadata = <<>>
    /\ dimension = None
    /\ file = FileMissing
    /\ uuids = 0
    /\ clock = 0
    /\ adds = 0
    /\ texts = 0
    /\ op = OpRecord("init", None, <<>>, "none")
    /\ ret = PyNone
    /\ ctx = None
    /\ model = DefaultModel
    /\ embedFailures = 0
    /\ saveFailures = 0

\* QAAgent.__init__ on the same data directory (a process restart): the
\* document records start empty and VectorStore.__init__ loads the file.
Restart(env) ==
    /\ model' \in env.models
    /\ documents' = <<>>
    /\ vectors' = load(EmptyStore, file).vectors
    /\ metadata' = load(EmptyStore, file).metadata
    /\ dimension' = load(EmptyStore, file).dimension
    /\ op' = OpRecord("restart", None, <<>>, "none")
    /\ ret' = PyNone
    /\ ctx' = None
    /\ UNCHANGED <<file, uuids, clock, adds, texts, embedFailures, saveFailures>>

\* add_document(text, title) returning None before anything is drawn; s is
\* the store it leaves.
AddDocumentRejected(s) ==
    /\ vectors' = s.vectors
    /\ metadata' = s.metadata
    /\ dimension' = s.dimension
    /\ op' = OpRecord("add_document", None, <<>>, "none")
    /\ ret' = PyNone
    /\ ctx' = None
    /\ UNCHANGED <<documents, file, uuids, clock, adds, texts, model, embedFailures,
                   saveFailures>>

\* add_document calling save() before the loop over the chunks.
AddDocumentSavedFirst(s, cleaned_text, chunks, title, env) ==
    /\ uuids < env.max_docs
    /\ \E results \in [1..Len(chunks) -> EmbedResults], outcome \in SaveOutcomes :
        /\ embedFailures + saveFailures + NumFails(results) + SaveFailed(outcome)
              <= env.max_failures
        /\ LET doc_id == Uuid4(uuids + 1)
               upload_time == IsoFormat(clock + 1)
               document == [doc_id |-> doc_id, text |-> cleaned_text, title |-> title,
                            chunks |-> chunks, upload_time |-> upload_time]
               base == [doc_id |-> doc_id, title |-> title, doc_title |-> title,
                        upload_time |-> upload_time]
               r == AddChunks([store |-> s, results |-> <<>>, adds |-> adds],
                              chunks, 1, base, results)
           IN /\ documents' = Append(documents, document)
              /\ vectors' = r.store.vectors
              /\ metadata' = r.store.metadata
              /\ dimension' = r.store.dimension
              /\ file' = save(s, file, outcome)
              /\ uuids' = uuids + 1
              /\ clock' = clock + 1
              /\ adds' = r.adds
              /\ op' = OpRecord("add_document", doc_id, r.results, outcome)
              /\ ret' = Str(doc_id)
              /\ ctx' = None
              /\ embedFailures' = embedFailures + NumFails(results)
              /\ saveFailures' = saveFailures + SaveFailed(outcome)
              /\ UNCHANGED <<model, texts>>

\* add_document(text, title) past validation: the document record is stored,
\* add_text runs for every chunk, the store is saved, the doc_id is returned.
AddDocumentStored(s, cleaned_text, chunks, title, env) ==
    /\ uuids < env.max_docs
    /\ \E results \in [1..Len(chunks) -> EmbedResults], outcome \in SaveOutcomes :
        /\ embedFailures + saveFailures + NumFails(results) + SaveFailed(outcome)
              <= env.max_failures
        /\ LET doc_id == Uuid4(uuids + 1)
               upload_time == IsoFormat(clock + 1)
               document == [doc_id |-> doc_id, text |-> cleaned_text, title |-> title,
                            chunks |-> chunks, upload_time |-> upload_time]
               base == [doc_id |-> doc_id, title |-> title, doc_title |-> title,
                        upload_time |-> upload_time]
               r == AddChunks([store |-> s, results |-> <<>>, adds |-> adds],
                              chunks, 1, base, results)
           IN /\ documents' = Append(documents, document)
              /\ vectors' = r.store.vectors
              /\ metadata' = r.store.metadata
              /\ dimension' = r.store.dimension
              /\ file' = save(r.store, file, outcome)
              /\ uuids' = uuids + 1
              /\ clock' = clock + 1
              /\ adds' = r.adds
              /\ op' = OpRecord("add_document", doc_id, r.results, outcome)
              /\ ret' = Str(doc_id)
              /\ ctx' = None
              /\ embedFailures' = embedFailures + NumFails(results)
              /\ saveFailures' = saveFailures + SaveFailed(outcome)
              /\ UNCHANGED <<model, texts>>

\* The store add_document works on: it calls load() first when the store
\* holds no vectors.
LoadedStore == IF vectors = <<>> THEN load(TheStore, file) ELSE TheStore

\* add_document calling load() before it validates the text.
add_document_loads_first(text, title, env) ==
    IF text = <<>> \/ StrLen(PyStrip(text)) < 10
    THEN AddDocumentRejected(LoadedStore)
    ELSE LET s == LoadedStore
             cleaned_text == _clean_text(text)
             chunks == _chunk_text(cleaned_text, DefaultChunkSize, DefaultOverlap)
         IN IF chunks = <<>>
            THEN AddDocumentRejected(s)
            ELSE AddDocumentStored(s, cleaned_text, chunks, title, env)

\* add_document(text, title)
add_document(text, title, env) ==
    IF text = <<>> \/ StrLen(PyStrip(text)) < 10
    THEN AddDocumentRejected(TheStore)
    ELSE LET s == LoadedStore
             cleaned_text == _clean_text(text)
             chunks == _chunk_text(cleaned_text, DefaultChunkSize, DefaultOverlap)
         IN IF chunks = <<>>
            THEN AddDocumentRejected(s)
            ELSE AddDocumentStored(s, cleaned_text, chunks, title, env)

\* delete_document dropping the document record before it looks for the
\* document's entries in the store.
delete_document_filters_first(doc_id, env) ==
    LET indices_to_remove == IndicesToRemove(metadata, doc_id)
        kept == SelectSeq(documents, LAMBDA doc : DictGet(doc, "doc_id", None) # doc_id)
    IN IF indices_to_remove = <<>>
       THEN /\ op' = OpRecord("delete_document", doc_id, <<>>, "none")
            /\ ret' = Bool(FALSE)
            /\ ctx' = None
            /\ documents' = kept
            /\ UNCHANGED <<vectors, metadata, dimension, file, uuids,
                           clock, adds, texts, model, embedFailures, saveFailures>>
       ELSE \E outcome \in SaveOutcomes :
            /\ SaveAllowed(outcome, env)
            /\ LET s == RemoveLoop(TheStore, Reverse(indices_to_remove))
               IN /\ vectors' = s.vectors
                  /\ metadata' = s.metadata
                  /\ dimension' = s.dimension
                  /\ documents' = kept
                  /\ file' = save(s, file, outcome)
                  /\ op' = OpRecord("delete_document", doc_id, <<>>, outcome)
                  /\ ret' = Bool(TRUE)
                  /\ ctx' = None
                  /\ saveFailures' = saveFailures + SaveFailed(outcome)
                  /\ UNCHANGED <<uuids, clock, adds, texts, model, embedFailures>>

\* delete_document(doc_id)
delete_document(doc_id, env) ==
    LET indices_to_remove == IndicesToRemove(metadata, doc_id)
    IN IF indices_to_remove = <<>>
       THEN /\ op' = OpRecord("delete_document", doc_id, <<>>, "none")
            /\ ret' = Bool(FALSE)
            /\ ctx' = None
            /\ UNCHANGED <<documents, vectors, metadata, dimension, file, uuids,
                           clock, adds, texts, model, embedFailures, saveFailures>>
       ELSE \E outcome \in SaveOutcomes :
            /\ SaveAllowed(outcome, env)
            /\ LET s == RemoveLoop(TheStore, Reverse(indices_to_remove))
               IN /\ vectors' = s.vectors
                  /\ metadata' = s.metadata
                  /\ dimension' = s.dimension
                  /\ documents' = SelectSeq(documents,
                                      LAMBDA doc : DictGet(doc, "doc_id", None) # doc_id)
                  /\ file' = save(s, file, outcome)
                  /\ op' = OpRecord("delete_document", doc_id, <<>>, outcome)
                  /\ ret' = Bool(TRUE)
                  /\ ctx' = None
                  /\ saveFailures' = saveFailures + SaveFailed(outcome)
                  /\ UNCHANGED <<uuids, clock, adds, texts, model, embedFailures>>

\* get_status() counting the records in memory only.
get_status_memory_only(docs, s) ==
    LET vector_stats == get_stats(s)
    IN [documents_count |-> Len(docs),
        chunks_count |-> vector_stats.total_vectors,
        vectors_ready |-> vector_stats.total_vectors > 0,
        ready_for_questions |-> vector_stats.total_vectors > 0,
        embedding_dimension |-> vector_stats.dimension,
        memory_usage_mb |-> vector_stats.memory_usage_mb]

\* get_status()
get_status(docs, s) ==
    LET vector_stats == get_stats(s)
        unique_docs == {s.metadata[i].doc_id :
                           i \in {j \in 1..Len(s.metadata) : "doc_id" \in DOMAIN s.metadata[j]}}
        doc_count == IF docs # <<>> THEN Len(docs) ELSE Cardinality(unique_docs)
    IN [documents_count |-> doc_count,
        chunks_count |-> vector_stats.total_vectors,
        vectors_ready |-> vector_stats.total_vectors > 0,
        ready_for_questions |-> vector_stats.total_vectors > 0,
        embedding_dimension |-> vector_stats.dimension,
        memory_usage_mb |-> vector_stats.memory_usage_mb]

\* clear_documents(): returns nothing.
clear_documents(env) ==
    \E outcome \in SaveOutcomes :
        /\ SaveAllowed(outcome, env)
        /\ documents' = <<>>
        /\ vectors' = clear(TheStore).vectors
        /\ metadata' = clear(TheStore).metadata
        /\ dimension' = clear(TheStore).dimension
        /\ file' = save(clear(TheStore), file, outcome)
        /\ op' = OpRecord("clear_documents", None, <<>>, outcome)
        /\ ret' = PyNone
        /\ ctx' = None
        /\ saveFailures' = saveFailures + SaveFailed(outcome)
        /\ UNCHANGED <<uuids, clock, adds, texts, model, embedFailures>>

\* _generate_answer answering with the empty string when the generator fails.
_generate_answer_silent(context, gen) ==
    IF gen = None THEN <<>> ELSE PyStrip(Val(gen))

\* _generate_answer(question, context) when the generator ends as `gen`.
_generate_answer(context, gen) ==
    IF gen = None THEN StrCat(MsgGenerationError, GenErrorText) ELSE PyStrip(Val(gen))

\* answer_question looking at the store before it looks at the question.
answer_question_store_first(question, gen) ==
    LET relevant_context == _get_relevant_context(documents, metadata)
        called == /\ ~(question = <<>> \/ StrLen(PyStrip(question)) < 3)
                  /\ vectors # <<>>
                  /\ relevant_context # <<>>
    IN /\ ret' = Str(IF vectors = <<>> THEN MsgNoDocuments
                     ELSE IF question = <<>> \/ StrLen(PyStrip(question)) < 3
                     THEN MsgInvalidQuestion
                     ELSE IF relevant_context = <<>> THEN MsgNoContext
                     ELSE _generate_answer(relevant_context, gen))
       /\ ctx' = IF called THEN Some(relevant_context) ELSE None
       /\ op' = OpRecord("answer_question", None, <<>>, "none")
       /\ UNCHANGED <<documents, vectors, metadata, dimension, file, uuids, clock,
                      adds, texts, model, embedFailures, saveFailures>>

\* answer_question(question).  ctx records the context handed to
\* _generate_answer (None: the generator was not called).
answer_question(question, gen) ==
    LET relevant_context == _get_relevant_context(documents, metadata)
        called == /\ ~(question = <<>> \/ StrLen(PyStrip(question)) < 3)
                  /\ vectors # <<>>
                  /\ relevant_context # <<>>
    IN /\ ret' = Str(IF question = <<>> \/ StrLen(PyStrip(question)) < 3
                     THEN MsgInvalidQuestion
                     ELSE IF vectors = <<>> THEN MsgNoDocuments
                     ELSE IF relevant_context = <<>> THEN MsgNoContext
                     ELSE _generate_answer(relevant_context, gen))
       /\ ctx' = IF called THEN Some(relevant_context) ELSE None
       /\ op' = OpRecord("answer_question", None, <<>>, "none")
       /\ UNCHANGED <<documents, vectors, metadata, dimension, file, uuids, clock,
                      adds, texts, model, embedFailures, saveFailures>>

-----------------------------------------------------------------------------
(* The VectorStore called directly, beside the agent.                      *)

\* The texts and metadata add_text is called with directly: an empty text,
\* a one-character text; no metadata, metadata naming the first document.
StoreTexts == {<<>>, Lit(<<"x">>)}
StoreMetadata == {<<>>, [doc_id |-> Uuid4(1), doc_title |-> Lit(<<"A">>)]}

\* Whether create_embedding sends a request for the text, and it fails.
RequestFailed(text, result) ==
    IF create_embedding(text, Some(<<>>)) # None /\ result = "fails" THEN 1 ELSE 0

\* VectorStore.add_text(text, metadata)
StoreAddText(text, md, result, env) ==
    /\ texts < MaxTexts
    /\ embedFailures + saveFailures + RequestFailed(text, result) <= env.max_failures
    /\ LET r == add_text(TheStore, text, md, EmbedAnswer(model, text, result), adds + 1)
       IN /\ vectors' = r.store.vectors
          /\ metadata' = r.store.metadata
          /\ dimension' = r.store.dimension
          /\ adds' = IF r.ret = None THEN adds ELSE adds + 1
          /\ ret' = Optional(r.ret)
    /\ texts' = texts + 1
    /\ embedFailures' = embedFailures + RequestFailed(text, result)
    /\ op' = [name |-> "add_text", doc_id |-> None, results |-> <<>>, save |-> "none",
              request |-> IF create_embedding(text, Some(<<>>)) = None THEN "no request"
                          ELSE result]
    /\ ctx' = None
    /\ UNCHANGED <<documents, file, uuids, clock, model, saveFailures>>

\* VectorStore.clear()
StoreClear ==
    /\ vectors' = clear(TheStore).vectors
    /\ metadata' = clear(TheStore).metadata
    /\ dimension' = clear(TheStore).dimension
    /\ op' = OpRecord("clear", None, <<>>, "none")
    /\ ret' = PyNone
    /\ ctx' = None
    /\ UNCHANGED <<documents, file, uuids, clock, adds, texts, model, embedFailures,
                   saveFailures>>

\* VectorStore.save()
StoreSave(outcome, env) ==
    /\ SaveAllowed(outcome, env)
    /\ file' = save(TheStore, file, outcome)
    /\ saveFailures' = saveFailures + SaveFailed(outcome)
    /\ op' = OpRecord("save", None, <<>>, outcome)
    /\ ret' = PyNone
    /\ ctx' = None
    /\ UNCHANGED <<documents, vectors, metadata, dimension, uuids, clock, adds, texts,
                   model, embedFailures>>

\* VectorStore.load()
StoreLoad ==
    /\ vectors' = load(TheStore, file).vectors
    /\ metadata' = load(TheStore, file).metadata
    /\ dimension' = load(TheStore, file).dimension
    /\ op' = OpRecord("load", None, <<>>, "none")
    /\ ret' = PyNone
    /\ ctx' = None
    /\ UNCHANGED <<documents, file, uuids, clock, adds, texts, model, embedFailures,
                   saveFailures>>

\* The calls of the store's interface under environment env.
StoreNext(env) ==
    \/ \E text \in StoreTexts, md \in StoreMetadata, result \in EmbedResults :
          StoreAddText(text, md, result, env)
    \/ StoreClear
    \/ \E outcome \in SaveOutcomes : StoreSave(outcome, env)
    \/ StoreLoad

\* The calls of the agent's interface under environment env.
AgentNext(env) ==
    \/ \E input \in DocInputs : add_document(input[1], input[2], env)
    \/ \E n \in 1..env.max_docs : delete_document(Uuid4(n), env)
    \/ clear_documents(env)
    \/ \E question \in Questions, gen \in GenOutcomes : answer_question(question, gen)
    \/ Restart(env)

Next == AgentNext(Env)

Spec == Init /\ [][Next]_vars

NextStore ==
    \/ StoreNext(StoreEnv)
    \/ \E input \in DocInputs : add_document(input[1], input[2], StoreEnv)
    \/ \E n \in 1..StoreEnv.max_docs : delete_document(Uuid4(n), StoreEnv)
    \/ Restart(StoreEnv)

\* The store's interface and the agent's add_document, delete_document and
\* construction, called in any order.
SpecStore == Init /\ [][NextStore]_vars

NextQuiet == AgentNext(QuietEnv)

\* One agent in an environment that never fails.
SpecQuiet == Init /\ [][NextQuiet]_vars

-----------------------------------------------------------------------------
(* similarity_search on stores of up to MaxStored vectors.                 *)

MaxStored == 3
MaxTopK == 3

\* Stored vectors of dimension 2 with exact norms and quotients: one that is
\* not of unit length, one orthogonal and one opposite to it, and the zero
\* vector.
SearchVectors == {<<2, 0>>, <<0, 1>>, <<-1, 0>>, <<0, 0>>}

\* The queries, what the remote model answers for them (a failure, vectors
\* of the store's dimension, a vector of another dimension), and the
\* thresholds.
Queries == {<<>>, Lit(<<"q">>)}
QueryAnswers == {None, Some(<<1, 0>>), Some(<<0, 3>>), Some(<<1, 0, 0>>)}
QueryInputs ==
    {<<query, answer>> \in Queries \X QueryAnswers : query = <<>> => answer = None}
MinSimilarities == {-1, 0, 1}

\* A store that add_text calls have filled, never saved.
InitSearch ==
    /\ \E n \in 0..MaxStored : \E vs \in [1..n -> SearchVectors] :
          /\ vectors = [i \in 1..n |-> [vec |-> np_array(vs[i]), src |-> i]]
          /\ metadata = [i \in 1..n |->
                            [id |-> VectorId(i - 1), text |-> Lit(<<"x">>), src |-> i]]
          /\ dimension \in IF n = 0 THEN {None, Some(2)} ELSE {Some(2)}
          /\ adds = n
          /\ texts = n
    /\ documents = <<>>
    /\ file = FileMissing
    /\ uuids = 0
    /\ clock = 0
    /\ model = DefaultModel
    /\ embedFailures = 0
    /\ saveFailures = 0
    /\ op = OpRecord("init", None, <<>>, "none")
    /\ ret = PyNone
    /\ ctx = None

\* VectorStore.similarity_search(query, top_k, min_similarity); op keeps the
\* arguments and the remote model's answer.
SimilaritySearch(query, answer, top_k, min_similarity) ==
    /\ ret' = List(similarity_search(TheStore, query, answer, top_k, min_similarity))
    /\ op' = [name |-> "similarity_search", query |-> query, answer |-> answer,
              top_k |-> top_k, min_similarity |-> min_similarity]
    /\ ctx' = None
    /\ UNCHANGED <<documents, vectors, metadata, dimension, file, uuids, clock, adds,
                   texts, model, embedFailures, saveFailures>>

NextSearch ==
    \E input \in QueryInputs, top_k \in 0..MaxTopK,
       min_similarity \in MinSimilarities :
        SimilaritySearch(input[1], input[2], top_k, min_similarity)

SpecSearch == InitSearch /\ [][NextSearch]_vars

-----------------------------------------------------------------------------
(* _chunk_text, one iteration of its while loop at a time.                 *)

MaxTextLen == 3
MaxChunkSize == 3
MaxChunks == 6

\* Every text of 1..MaxTextLen characters over a terminator, a letter and a
\* space, with every chunk_size in 1..MaxChunkSize and every overlap below it.
SmallTexts ==
    UNION {{Lit(chars) : chars \in [1..n -> {".", "a", " "}]} : n \in 1..MaxTextLen}
SmallChunkInputs ==
    {<<text, chunk_size, overlap>> \in SmallTexts \X (1..MaxChunkSize) \X (0..MaxChunkSize) :
        overlap < chunk_size}

\* Whitespace-normalized texts chunked with the default parameters: three
\* sentences whose lengths put the terminators at, inside, at the far edge
\* of and outside the 100 characters the scan reads.
BigTexts ==
    {<<<<"a", n1>>, <<".", 1>>, <<" ", 1>>, <<"b", n2>>, <<"!", 1>>, <<"c", n3>>>> :
        n1 \in {499, 500, 598, 700}, n2 \in {1, 398, 399, 400, 600},
        n3 \in {1, 100, 101, 650}}

ChunkInputs ==
    SmallChunkInputs \cup {<<text, DefaultChunkSize, DefaultOverlap>> : text \in BigTexts}

\* The state of a _chunk_text call when it enters the while loop, or after
\* its early return: op keeps the arguments, the position in the code, the
\* window start and the ranges [start, end) cut so far; ret is `chunks`.
ChunkCall(text, chunk_size, overlap) ==
    /\ op = [name |-> "_chunk_text", text |-> text, chunk_size |-> chunk_size,
             overlap |-> overlap,
             pc |-> IF StrLen(text) <= chunk_size THEN "done" ELSE "loop",
             start |-> 0, ranges |-> <<>>]
    /\ ret = List(IF StrLen(text) <= chunk_size THEN <<text>> ELSE <<>>)

InitChunkOn(inputs) ==
    /\ \E input \in inputs : ChunkCall(input[1], input[2], input[3])
    /\ documents = <<>>
    /\ vectors = <<>>
    /\ metadata = <<>>
    /\ dimension = None
    /\ file = FileMissing
    /\ uuids = 0
    /\ clock = 0
    /\ adds = 0
    /\ texts = 0
    /\ model = DefaultModel
    /\ embedFailures = 0
    /\ saveFailures = 0
    /\ ctx = None

\* One iteration of the while loop: the window end, the chunk, the next
\* start, and the exit tests (the break and the loop condition are the same
\* test).  An IndexError of the scan leaves the function.  The loop is
\* followed for at most MaxChunks chunks.
ChunkStep ==
    /\ op.name = "_chunk_text"
    /\ op.pc = "loop"
    /\ Len(ret[2]) < MaxChunks
    /\ IF ScanRaises(op.text, op.start, op.chunk_size)
       THEN /\ op' = [op EXCEPT !.pc = "raised"]
            /\ ret' = ret
       ELSE LET end == ChunkEnd(op.text, op.start, op.chunk_size)
                chunk == PyStrip(PySlice(op.text, op.start, end))
                start == NextStart(end, op.overlap)
            IN /\ ret' = IF chunk # <<>> THEN List(Append(ret[2], chunk)) ELSE ret
               /\ op' = [op EXCEPT !.start = start,
                                   !.ranges = Append(@, <<op.start, end>>),
                                   !.pc = IF start >= StrLen(op.text) THEN "done"
                                          ELSE "loop"]
    /\ UNCHANGED <<documents, vectors, metadata, dimension, file, uuids, clock, adds,
                   texts, model, embedFailures, saveFailures, ctx>>

NextChunk == ChunkStep

SpecChunk == InitChunkOn(ChunkInputs) /\ [][NextChunk]_vars


-----------------------------------------------------------------------------
(* list_documents over a store filled by direct add_text calls.            *)

\* entries stored per run of specification SpecList
MaxListed == 4

\* The metadata handed to add_text: none, and entries of two documents, the
\* first document under two titles and upload times, the second with the
\* older `title` key and no upload time.
ListMetadata ==
    {<<>>,
     [doc_id |-> Uuid4(1), doc_title |-> Lit(<<"A">>), upload_time |-> IsoFormat(1)],
     [doc_id |-> Uuid4(1), doc_title |-> Lit(<<"B">>), upload_time |-> IsoFormat(2)],
     [doc_id |-> Uuid4(2), title |-> Lit(<<"B">>)]}

\* VectorStore.add_text(text, metadata) with an answering model
ListAddText(md) ==
    /\ Len(metadata) < MaxListed
    /\ LET text == Lit(<<"x">>)
           r == add_text(TheStore, text, md, EmbedAnswer(model, text, "answers"), adds + 1)
       IN /\ vectors' = r.store.vectors
          /\ metadata' = r.store.metadata
          /\ dimension' = r.store.dimension
          /\ ret' = Optional(r.ret)
    /\ adds' = adds + 1
    /\ texts' = texts + 1
    /\ op' = OpRecord("add_text", None, <<>>, "none")
    /\ ctx' = None
    /\ UNCHANGED <<documents, file, uuids, clock, model, embedFailures, saveFailures>>

\* list_documents() loading the file before it reads the metadata.
ListDocumentsReloading ==
    /\ vectors' = load(TheStore, file).vectors
    /\ metadata' = load(TheStore, file).metadata
    /\ dimension' = load(TheStore, file).dimension
    /\ ret' = List(list_documents(metadata'))
    /\ op' = OpRecord("list_documents", None, <<>>, "none")
    /\ ctx' = None
    /\ UNCHANGED <<documents, file, uuids, clock, adds, texts, model, embedFailures,
                   saveFailures>>

\* QAAgent.list_documents()
ListDocuments ==
    /\ ret' = List(list_documents(metadata))
    /\ op' = OpRecord("list_documents", None, <<>>, "none")
    /\ ctx' = None
    /\ UNCHANGED <<documents, vectors, metadata, dimension, file, uuids, clock, adds,
                   texts, model, embedFailures, saveFailures>>

NextList ==
    \/ \E md \in ListMetadata : ListAddText(md)
    \/ ListDocuments

SpecList == Init /\ [][NextList]_vars

-----------------------------------------------------------------------------
(* The agent with its get_status called between the other operations.      *)

\* QAAgent.get_status()
GetStatus ==
    /\ ret' = Dict(get_status(documents, TheStore))
    /\ op' = OpRecord("get_status", None, <<>>, "none")
    /\ ctx' = None
    /\ UNCHANGED <<documents, vectors, metadata, dimension, file, uuids, clock, adds,
                   texts, model, embedFailures, saveFailures>>

NextStatus ==
    \/ \E input \in DocInputs : add_document(input[1], input[2], Env)
    \/ \E n \in 1..Env.max_docs : delete_document(Uuid4(n), Env)
    \/ clear_documents(Env)
    \/ Restart(Env)
    \/ GetStatus

SpecStatus == Init /\ [][NextStatus]_vars

-----------------------------------------------------------------------------
(* QAAgent._keyword_search                                                 *)

\* The characters of s, one by one.
RECURSIVE Chars(_)
Chars(s) ==
    IF s = <<>> THEN <<>> ELSE [i \in 1..Head(s)[2] |-> Head(s)[1]] \o Chars(Tail(s))

\* str.lower(): the capital letters of the model's alphabet.
LowerChar(c) ==
    CASE c = "E" -> "e" [] c = "W" -> "w" [] c = "Y" -> "y" [] OTHER -> c
PyLower(s) == LET cs == Chars(s) IN Lit([i \in 1..Len(cs) |-> LowerChar(cs[i])])

\* the characters \w matches in a lowercased string
WordChars ==
    {"a", "b", "c", "d", "e", "f", "g", "h", "i", "j", "k", "l", "m", "n",
     "o", "p", "q", "r", "s", "t", "u", "v", "w", "x", "y", "z", "0", "1",
     "2", "3", "4", "5", "6", "7", "8", "9", "_"}

\* re.findall(r'\b\w+\b', s) on the characters cs from position i on, cur
\* being the word under way: the maximal runs of word characters.
RECURSIVE FindWords(_, _, _)
FindWords(cs, i, cur) ==
    LET word == IF cur = <<>> THEN <<>> ELSE <<Lit(cur)>>
    IN IF i > Len(cs) THEN word
       ELSE IF cs[i] \in WordChars THEN FindWords(cs, i + 1, Append(cur, cs[i]))
       ELSE word \o FindWords(cs, i + 1, <<>>)

\* str.count(sub) from position i on: occurrences that do not overlap,
\* found from the left.
RECURSIVE CountFrom(_, _, _)
CountFrom(hay, needle, i) ==
    IF i + Len(needle) - 1 > Len(hay) THEN 0
    ELSE IF SubSeq(hay, i, i + Len(needle) - 1) = needle
    THEN 1 + CountFrom(hay, needle, i + Len(needle))
    ELSE CountFrom(hay, needle, i + 1)
PyCount(s, sub) == CountFrom(Chars(s), Chars(sub), 1)

\* x in list
InList(x, list) == \E i \in 1..Len(list) : list[i] = x

stop_words ==
    {Lit(<<"w", "h", "e", "n">>), Lit(<<"w", "h", "e", "r", "e">>),
     Lit(<<"w", "h", "a", "t">>), Lit(<<"w", "h", "o">>),
     Lit(<<"h", "o", "w">>), Lit(<<"w", "h", "y">>), Lit(<<"i", "s">>),
     Lit(<<"a", "r", "e">>), Lit(<<"w", "a", "s">>),
     Lit(<<"w", "e", "r", "e">>), Lit(<<"t", "h", "e">>), Lit(<<"a">>),
     Lit(<<"a", "n">>), Lit(<<"d", "o">>), Lit(<<"d", "o", "e", "s">>),
     Lit(<<"d", "i", "d">>)}

\* keywords of a question
Keywords(question) ==
    SelectSeq(FindWords(Chars(PyLower(question)), 1, <<>>),
              LAMBDA word : word \notin stop_words /\ StrLen(word) > 2)

\* expanded_keywords of a question
ExpandedKeywords(question) ==
    LET question_lower == PyLower(question)
        keywords == Keywords(question)
    IN keywords
       \o (IF InList(Lit(<<"e", "s", "t", "a", "b", "l", "i", "s", "h", "e", "d">>), keywords) \/ InList(Lit(<<"f", "o", "u", "n", "d", "e", "d">>), keywords)
           THEN <<Lit(<<"e", "s", "t", "a", "b", "l", "i", "s", "h", "e", "d">>), Lit(<<"f", "o", "u", "n", "d", "e", "d">>), Lit(<<"c", "r", "e", "a", "t", "e", "d">>),
                  Lit(<<"s", "t", "a", "r", "t", "e", "d">>), Lit(<<"b", "e", "g", "a", "n">>)>>
           ELSE <<>>)
       \o (IF /\ InList(Lit(<<"p", "l", "a", "y">>), keywords)
              /\ \/ StrContains(question_lower, Lit(<<"w", "h", "e", "r", "e">>))
                 \/ StrContains(question_lower, Lit(<<"s", "t", "a", "d", "i", "u", "m">>))
           THEN <<Lit(<<"s", "t", "a", "d", "i", "u", "m">>), Lit(<<"v", "e", "n", "u", "e">>), Lit(<<"f", "i", "e", "l", "d">>),
                  Lit(<<"b", "a", "l", "l", "p", "a", "r", "k">>), Lit(<<"h", "o", "m", "e">>)>>
           ELSE <<>>)
       \o (IF InList(Lit(<<"y", "a", "n", "k", "e", "e", "s">>), keywords)
           THEN <<Lit(<<"y", "a", "n", "k", "e", "e">>), Lit(<<"n", "e", "w", " ", "y", "o", "r", "k", " ", "y", "a", "n", "k", "e", "e", "s">>)>>
           ELSE <<>>)

\* The keyword loop over expanded_keywords from position k on; the scores are
\* floats with integer values.
RECURSIVE ScoreLoop(_, _, _, _, _)
ScoreLoop(text_lower, expanded_keywords, keywords, k, acc) ==
    IF k > Len(expanded_keywords) THEN acc
    ELSE LET keyword == expanded_keywords[k]
             count == PyCount(text_lower, keyword)
         IN ScoreLoop(text_lower, expanded_keywords, keywords, k + 1,
                IF count > 0
                THEN [score |-> acc.score
                                  + count * (IF InList(keyword, keywords) THEN 2 ELSE 1),
                      matched_keywords |-> Append(acc.matched_keywords, keyword)]
                ELSE acc)

\* score and matched_keywords of one text
Scored(text, question) ==
    ScoreLoop(PyLower(text), ExpandedKeywords(question), Keywords(question), 1,
              [score |-> 0, matched_keywords |-> <<>>])

\* results.sort(key=lambda x: x['similarity'], reverse=True): stable.
RECURSIVE SortByScore(_)
SortByScore(results) ==
    IF results = <<>> THEN <<>>
    ELSE LET front == SortByScore(SubSeq(results, 1, Len(results) - 1))
             x == results[Len(results)]
             k == Cardinality({j \in 1..Len(front) : front[j].similarity >= x.similarity})
         IN SubSeq(front, 1, k) \o <<x>> \o SubSeq(front, k + 1, Len(front))

\* _keyword_search(question, top_k) of an agent with the document records
\* docs and the stored metadata md
_keyword_search(docs, md, question, top_k) ==
    LET from_store ==
            SelectSeq([i \in 1..Len(md) |->
                          [similarity |-> Scored(DictGet(md[i], "text", <<>>), question).score,
                           metadata |-> md[i],
                           index |-> i - 1,
                           matched_keywords |->
                               Scored(DictGet(md[i], "text", <<>>), question).matched_keywords]],
                      LAMBDA r : r.similarity > 0)
        with_text == SelectSeq(docs, LAMBDA doc : Truthy(DictGet(doc, "text", None)))
        from_documents ==
            SelectSeq([i \in 1..Len(with_text) |->
                          [similarity |-> Scored(with_text[i].text, question).score,
                           metadata |-> [text |-> PySlice(with_text[i].text, 0, 2000),
                                         title |->
                                             DictGet(with_text[i], "title",
                                                     Lit(<<"D", "o", "c", "u", "m",
                                                           "e", "n", "t">>))],
                           matched_keywords |->
                               Scored(with_text[i].text, question).matched_keywords]],
                      LAMBDA r : r.similarity > 0)
        results == IF from_store = <<>> /\ docs # <<>> THEN from_documents ELSE from_store
    IN ListHead(SortByScore(results), top_k)

\* top_k when the caller gives none
DefaultTopK == 5

\* stored entries per run of specification SpecKeyword
MaxKeywordStored == 2

KeywordQuestions ==
    {Lit(<<"w", "h", "e", "n", " ", "w", "a", "s", " ", "i", "t", " ", "e", "s", "t", "a", "b", "l", "i", "s", "h", "e", "d">>),
     Lit(<<"y", "a", "n", "k", "e", "e", "s", " ", "y", "a", "n", "k", "e", "e", "s">>),
     Lit(<<"W", "h", "e", "r", "e", " ", "d", "o", " ", "t", "h", "e", " ", "Y", "a", "n", "k", "e", "e", "s", " ", "p", "l", "a", "y", "?">>),
     Lit(<<"f", "o", "u", "n", "d", "e", "d">>),
     Lit(<<"w", "h", "y", " ", "i", "s", " ", "i", "t">>)}

KeywordTexts ==
    {Lit(<<"E", "s", "t", "a", "b", "l", "i", "s", "h", "e", "d", " ", "1", "9", "2", "3">>),
     Lit(<<"i", "t", " ", "w", "a", "s", " ", "f", "o", "u", "n", "d", "e", "d">>),
     Lit(<<"n", "e", "w", " ", "y", "o", "r", "k", " ", "y", "a", "n", "k", "e", "e", "s">>),
     Lit(<<"y", "a", "n", "k", "e", "e", " ", "s", "t", "a", "d", "i", "u", "m">>)}

\* An agent over a store of up to MaxKeywordStored entries, without document
\* records (constructed on the file) or with the record of one document.
InitKeyword ==
    /\ \E n \in 0..MaxKeywordStored : \E ts \in [1..n -> KeywordTexts] :
          /\ vectors = [i \in 1..n |-> [vec |-> np_array(<<1, 0>>), src |-> i]]
          /\ metadata = [i \in 1..n |-> [id |-> VectorId(i - 1), text |-> ts[i], src |-> i]]
          /\ dimension = IF n = 0 THEN None ELSE Some(2)
          /\ adds = n
          /\ texts = n
    /\ \E ds \in {<<>>} \cup {<<t>> : t \in KeywordTexts} :
          documents = [k \in 1..Len(ds) |->
                          [doc_id |-> Uuid4(k), text |-> ds[k], title |-> Lit(<<"A">>),
                           chunks |-> <<ds[k]>>, upload_time |-> IsoFormat(k)]]
    /\ file = FileMissing
    /\ uuids = Len(documents)
    /\ clock = Len(documents)
    /\ model = DefaultModel
    /\ embedFailures = 0
    /\ saveFailures = 0
    /\ op = OpRecord("init", None, <<>>, "none")
    /\ ret = PyNone
    /\ ctx = None

\* QAAgent._keyword_search(question, top_k); op keeps the arguments.
KeywordSearch(question, top_k) ==
    /\ ret' = List(_keyword_search(documents, metadata, question, top_k))
    /\ op' = [name |-> "_keyword_search", question |-> question, top_k |-> top_k]
    /\ ctx' = None
    /\ UNCHANGED <<documents, vectors, metadata, dimension, file, uuids, clock, adds,
                   texts, model, embedFailures, saveFailures>>

NextKeyword ==
    \E question \in KeywordQuestions, top_k \in {1, DefaultTopK} :
        KeywordSearch(question, top_k)

SpecKeyword == InitKeyword /\ [][NextKeyword]_vars

-----------------------------------------------------------------------------
(* The read operations of the agent and of its store.                      *)

\* stored entries per run of specification SpecRead
MaxReadStored == 2


\* An agent over a store of up to MaxReadStored chunks of one document, with
\* the record of the document in memory or (constructed on the file) without,
\* and a file that is missing, unreadable, or holds this store or an empty one.
InitRead ==
    /\ \E n \in 0..MaxReadStored :
       \E vs \in [1..n -> {<<2, 0>>, <<0, 1>>}], 
          ts \in [1..n -> {Lit(<<"i", "t", " ", "w", "a", "s", " ", "f", "o", "u", "n", "d", "e", "d">>),
                           Lit(<<"n", "e", "w", " ", "y", "o", "r", "k", " ", "y", "a", "n", "k", "e", "e", "s">>)}] :
          /\ vectors = [i \in 1..n |-> [vec |-> np_array(vs[i]), src |-> i]]
          /\ metadata = [i \in 1..n |->
                            [id |-> VectorId(i - 1), text |-> ts[i], src |-> i,
                             doc_id |-> Uuid4(1), chunk_index |-> i - 1,
                             title |-> Lit(<<"A">>), doc_title |-> Lit(<<"A">>),
                             upload_time |-> IsoFormat(1)]]
          /\ dimension \in IF n = 0 THEN {None, Some(2)} ELSE {Some(2)}
          /\ adds = n
          /\ texts = 0
          /\ documents \in
                {<<>>,
                 <<[doc_id |-> Uuid4(1), text |-> Join(ts, Lit(<<" ">>)),
                    title |-> Lit(<<"A">>), chunks |-> ts, upload_time |-> IsoFormat(1)]>>}
    /\ file \in {FileMissing, FileCorrupt, FileOf(TheStore), FileOf(EmptyStore)}
    /\ uuids = 1
    /\ clock = 1
    /\ model = DefaultModel
    /\ embedFailures = 0
    /\ saveFailures = 0
    /\ op = OpRecord("init", None, <<>>, "none")
    /\ ret = PyNone
    /\ ctx = None

\* VectorStore.get_by_id(vector_id); op keeps the argument.
GetById(vector_id) ==
    /\ ret' = IF get_by_id(TheStore, vector_id) = None THEN PyNone
              ELSE Dict(Val(get_by_id(TheStore, vector_id)))
    /\ op' = [name |-> "get_by_id", vector_id |-> vector_id]
    /\ ctx' = None
    /\ UNCHANGED <<documents, vectors, metadata, dimension, file, uuids, clock, adds,
                   texts, model, embedFailures, saveFailures>>

NextRead ==
    \/ \E question \in Questions, gen \in GenOutcomes : answer_question(question, gen)
    \/ ListDocuments
    \/ GetStatus
    \/ \E input \in QueryInputs : SimilaritySearch(input[1], input[2], DefaultTopK, 0)
    \/ \E n \in 0..MaxReadStored : GetById(VectorId(n))
    \/ \E question \in KeywordQuestions : KeywordSearch(question, DefaultTopK)

SpecRead == InitRead /\ [][NextRead]_vars

-----------------------------------------------------------------------------
(* The claims.                                                             *)

\* C1: no two entries held in the vector store carry the same vector id.
C1_UniqueVectorIds ==
    \A i, j \in 1..Len(metadata) : i # j => metadata[i].id # metadata[j].id

\* C2: every stored vector has the length the store's dimension says;
\* delete_document never changes the dimension, also when it removes the
\* last vector; add_document keeps the dimension of the store it works on
\* (its own or the one its load() call read); and a dimension that is set
\* changes only in clear_documents, in a restart, or in an add_document whose
\* load() call replaced the whole store.
C2_DimensionFixed ==
    [][/\ \A i \in 1..Len(vectors') :
            dimension' # None /\ Len(vectors'[i].vec) = Val(dimension')
       /\ (op'.name = "delete_document" => dimension' = dimension)
       /\ (op'.name = "add_document" /\ ret' # PyNone /\ LoadedStore.dimension # None
              => dimension' = LoadedStore.dimension)
       /\ (dimension # None /\ dimension' # dimension
              => \/ op'.name \in {"clear_documents", "restart"}
                 \/ op'.name = "add_document" /\ LoadedStore # TheStore)]_vars

\* C2 witness: delete_document removed the last vector and the dimension is
\* still set.
C2_Witness ==
    op.name = "delete_document" /\ ret = Bool(TRUE) /\ vectors = <<>> /\ dimension # None

\* C3: an add_text call that returns None (no embedding, or an embedding
\* of another length than the dimension) leaves vectors, metadata and
\* dimension as they were; an add_document all of whose add_text calls
\* return None leaves the store as its load() step left it.
C3_FailedAddTextNoChange ==
    [][/\ (op'.name = "add_text" /\ ret' = PyNone
              => vectors' = vectors /\ metadata' = metadata /\ dimension' = dimension)
       /\ ((/\ op'.name = "add_document"
             /\ ret' # PyNone
             /\ \A i \in 1..Len(op'.results) : op'.results[i] = None)
              => TheStore' = LoadedStore)]_vars

\* C3 witness: a direct add_text got an answer from the model and returned
\* None all the same: the answer's length is not the store's dimension.
C3_Witness ==
    /\ op.name = "add_text"
    /\ op.request = "answers"
    /\ ret = PyNone
    /\ vectors # <<>>

\* C4: vectors and metadata have the same length, and position i of one was
\* stored by the same add_text call as position i of the other.
C4_ParallelSequences ==
    /\ Len(vectors) = Len(metadata)
    /\ \A i \in 1..Len(vectors) : vectors[i].src = metadata[i].src

\* C4 witness: a load() that read at least two entries, after some entry
\* stored earlier had been removed.
C4_Witness == op.name = "load" /\ Len(vectors) >= 2 /\ adds > Len(vectors)

\* C5: after delete_document(doc_id), list_documents() has no entry with
\* that doc_id, no stored metadata has it, and vectors and metadata have the
\* same length.
C5_DeleteConsistency ==
    op.name = "delete_document" =>
        /\ \A k \in 1..Len(list_documents(metadata)) :
              list_documents(metadata)[k].doc_id # op.doc_id
        /\ \A i \in 1..Len(metadata) : DictGet(metadata[i], "doc_id", None) # op.doc_id
        /\ Len(vectors) = Len(metadata)

\* C5 witness: a delete_document that found its document, with entries of
\* another document left in the store.
C5_Witness == op.name = "delete_document" /\ ret = Bool(TRUE) /\ Len(metadata) >= 1

\* The stored (vector, metadata) pairs whose doc_id is not d, in store order.
OtherEntries(vs, md, d) ==
    LET idx == SelectSeq([i \in 1..Len(md) |-> i],
                         LAMBDA i : DictGet(md[i], "doc_id", None) # d)
    IN [k \in 1..Len(idx) |-> <<vs[idx[k]], md[idx[k]]>>]
OtherDocuments(docs, d) == SelectSeq(docs, LAMBDA doc : doc.doc_id # d)

\* C6: delete_document(d) keeps every stored entry of another document, with
\* its vector and metadata unchanged and in the same order, and every
\* in-memory document record other than d.
C6_DeleteFrame ==
    [][op'.name = "delete_document" =>
          /\ OtherEntries(vectors', metadata', op'.doc_id)
                = OtherEntries(vectors, metadata, op'.doc_id)
          /\ OtherDocuments(documents', op'.doc_id) = OtherDocuments(documents, op'.doc_id)]_vars

\* C6 witness: a delete_document that found its document while the store and
\* the document records hold another one.
C6_Witness ==
    /\ op.name = "delete_document"
    /\ ret = Bool(TRUE)
    /\ Len(metadata) >= 1
    /\ documents # <<>>

\* C7: whenever answer_question hands a context to the answer generator, the
\* context contains the text of every chunk in the store.
C7_ContextHoldsEveryChunk ==
    ctx # None =>
        \A i \in 1..Len(metadata) :
            StrContains(Val(ctx), DictGet(metadata[i], "text", <<>>))

\* C8: an add_document, delete_document or clear_documents whose save() did
\* not write the file does not return its normal result: add_document
\* returns None, delete_document returns False, clear_documents does not
\* return normally.
C8_SaveFailureReported ==
    op.save \in {"unwritable", "truncated"} =>
        /\ (op.name = "add_document" => ret = PyNone)
        /\ (op.name = "delete_document" => ret = Bool(FALSE))
        /\ op.name # "clear_documents"

\* The texts stored under doc_id d, in store order.
StoredTexts(md, d) ==
    LET mine == SelectSeq(md, LAMBDA m : DictGet(m, "doc_id", None) = d)
    IN [k \in 1..Len(mine) |-> mine[k].text]
FirstFailed(results) == MinOf({i \in 1..Len(results) : results[i] = None})

\* C9: after an add_document in which the add_text of some chunk returned
\* None, the entries stored for the document are the chunks before the first
\* such chunk.
C9_StoredPrefix ==
    (/\ op.name = "add_document"
     /\ ret # PyNone
     /\ \E i \in 1..Len(op.results) : op.results[i] = None)
        => StoredTexts(metadata, op.doc_id)
              = SubSeq(documents[Len(documents)].chunks, 1, FirstFailed(op.results) - 1)

\* C10: when every save() so far wrote the file, a restart yields the
\* vectors, metadata and dimension held in memory before it, and
\* list_documents() returns what it returned before.
C10_RestartRestores ==
    [][op'.name = "restart" /\ saveFailures = 0 =>
          /\ vectors' = vectors
          /\ metadata' = metadata
          /\ dimension' = dimension
          /\ list_documents(metadata') = list_documents(metadata)]_vars

\* C10 witness: a restart after documents were added and entries removed,
\* every save() having written the file.
C10_Witness ==
    /\ op.name = "restart"
    /\ saveFailures = 0
    /\ Len(vectors) >= 1
    /\ adds > Len(vectors)

C12_SearchOrdering ==
    op.name = "similarity_search" =>
        IF \/ vectors = <<>>
           \/ create_embedding(op.query, op.answer) = None
           \/ dimension = None
           \/ Len(Val(op.answer)) # Val(dimension)
        THEN ret = List(<<>>)
        ELSE LET sim(i) == CosineSimilarity(np_array(Val(op.answer)), vectors[i].vec)
                 passing == {i \in 1..Len(vectors) :
                                SimilarityGeq(sim(i), op.min_similarity)}
                 Before(i, j) == \/ sim(i)[1] > sim(j)[1]
                                 \/ sim(i)[1] = sim(j)[1] /\ i < j
                 at(k) == ret[2][k].index + 1
             IN /\ Len(ret[2]) = Min2(op.top_k, Cardinality(passing))
                /\ \A k \in 1..Len(ret[2]) :
                      /\ at(k) \in passing
                      /\ ret[2][k].similarity = sim(at(k))
                      /\ ret[2][k].metadata = metadata[at(k)]
                /\ \A k, l \in 1..Len(ret[2]) : k < l => Before(at(k), at(l))
                /\ \A j \in passing \ {at(k) : k \in 1..Len(ret[2])} :
                      \A k \in 1..Len(ret[2]) : Before(at(k), j)

\* C12 witness: a search over three vectors that returned two entries of
\* equal similarity, the first of them not the first vector of the store,
\* and left the third out.
C12_Witness ==
    /\ op.name = "similarity_search"
    /\ Len(vectors) = 3
    /\ Len(ret[2]) = 2
    /\ ret[2][1].similarity = ret[2][2].similarity
    /\ ret[2][1].index = 1

\* C13: in every _chunk_text call with chunk_size > 0 and 0 <= overlap <
\* chunk_size the window start moves forward on every iteration of the while
\* loop that ends without an exception, so that the loop is left after at most
\* len(text) iterations.
C13_ChunkingTerminates ==
    [][(op.name = "_chunk_text" /\ op.pc = "loop" /\ op'.pc # "raised")
          => op'.start > op.start]_vars

\* C14: in a _chunk_text call with the default parameters on a text longer
\* than chunk_size, the first range cut starts at 0, every later range
\* starts inside the text at or before the end of the range before it, and
\* when the call returns the last range reaches the end of the text.
C14_ChunkingCoverage ==
    (/\ op.name = "_chunk_text"
     /\ op.chunk_size = DefaultChunkSize
     /\ op.overlap = DefaultOverlap
     /\ StrLen(op.text) > op.chunk_size)
        => /\ op.pc # "raised"
           /\ op.ranges # <<>> => op.ranges[1][1] = 0
           /\ \A k \in 2..Len(op.ranges) :
                 /\ 0 <= op.ranges[k][1]
                 /\ op.ranges[k][1] <= op.ranges[k - 1][2]
           /\ op.pc = "loop" => 0 <= op.start /\ op.start < StrLen(op.text)
           /\ op.pc = "done" =>
                 /\ op.ranges # <<>>
                 /\ op.ranges[Len(op.ranges)][2] >= StrLen(op.text)

\* C14 witness: a call with the default parameters returned after cutting at
\* least three ranges, the first of them cut back to a sentence end.
C14_Witness ==
    /\ op.name = "_chunk_text"
    /\ op.chunk_size = DefaultChunkSize
    /\ op.overlap = DefaultOverlap
    /\ op.pc = "done"
    /\ Len(op.ranges) >= 3
    /\ op.ranges[1][2] < DefaultChunkSize

\* C15: a step that is an add_document call with a text that is empty or
\* has fewer than 10 characters after strip() returns None and leaves the
\* document records, the vectors, the metadata, the dimension and the file as
\* they were.
C15_ShortTextRejected ==
    [][\A input \in DocInputs :
          (/\ input[1] = <<>> \/ StrLen(PyStrip(input[1])) < 10
           /\ add_document(input[1], input[2], Env))
             => /\ ret' = PyNone
                /\ UNCHANGED <<documents, vectors, metadata, dimension, file>>]_vars

\* C15 witness: add_document returned None without reaching add_text, while
\* the store in memory was empty and the file held entries a load() would
\* have read.
C15_Witness ==
    /\ op.name = "add_document"
    /\ ret = PyNone
    /\ op.results = <<>>
    /\ vectors = <<>>
    /\ file.state = "data"
    /\ file.data.vectors # <<>>

\* C16: delete_document(d) returns True exactly when some stored metadata
\* entry has doc_id d before the call; when it returns False the vectors,
\* metadata, dimension, document records and file are as before.
C16_DeleteReturn ==
    [][op'.name = "delete_document" =>
          /\ ret' = Bool(\E i \in 1..Len(metadata) :
                            DictGet(metadata[i], "doc_id", None) = op'.doc_id)
          /\ (ret' = Bool(FALSE) =>
                 UNCHANGED <<vectors, metadata, dimension, documents, file>>)]_vars

\* C16 witness: delete_document returned False for a document that has a
\* record in memory but no entry in the store, while the store holds entries
\* of another document.
C16_Witness ==
    /\ op.name = "delete_document"
    /\ ret = Bool(FALSE)
    /\ vectors # <<>>
    /\ \E k \in 1..Len(documents) : documents[k].doc_id = op.doc_id

\* What get_status() reports in an agent constructed anew on the file.
StatusAfterRestart == get_status(<<>>, load(EmptyStore, file))

\* C17: after clear_documents the document records, vectors and metadata
\* are empty and the dimension is None; a store loaded from the file is
\* empty; get_status reports documents_count 0, chunks_count 0 and
\* ready_for_questions False, now and in an agent constructed anew on the
\* same data directory.
C17_ClearAllPersisted ==
    op.name = "clear_documents" =>
        /\ documents = <<>>
        /\ TheStore = EmptyStore
        /\ load(EmptyStore, file) = EmptyStore
        /\ get_status(documents, TheStore).documents_count = 0
        /\ get_status(documents, TheStore).chunks_count = 0
        /\ get_status(documents, TheStore).ready_for_questions = FALSE
        /\ StatusAfterRestart.documents_count = 0
        /\ StatusAfterRestart.chunks_count = 0
        /\ StatusAfterRestart.ready_for_questions = FALSE

\* The positions of the stored metadata entries whose doc_id is d.
EntriesOf(d) == {i \in 1..Len(metadata) : DictGet(metadata[i], "doc_id", None) = d}
\* The position of the first of them.
FirstEntryOf(d) == CHOOSE i \in EntriesOf(d) : \A j \in EntriesOf(d) : i <= j

\* C18: what list_documents returns has exactly one entry per distinct
\* doc_id of the stored metadata, in the order in which the doc_ids first
\* occur there; an entry carries the title and the upload_time of the first
\* stored entry with its doc_id, and as chunk_count the number of stored
\* entries with its doc_id.
C18_ListDocuments ==
    op.name = "list_documents" =>
        LET docs == ret[2]
            ids == {DictGet(metadata[i], "doc_id", None) : i \in 1..Len(metadata)}
                       \ {None}
        IN /\ {docs[k].doc_id : k \in 1..Len(docs)} = ids
           /\ Len(docs) = Cardinality(ids)
           /\ \A k, l \in 1..Len(docs) :
                 k < l => FirstEntryOf(docs[k].doc_id) < FirstEntryOf(docs[l].doc_id)
           /\ \A k \in 1..Len(docs) :
                 LET first == metadata[FirstEntryOf(docs[k].doc_id)]
                 IN /\ docs[k].title = DocTitleOf(first)
                    /\ docs[k].upload_time = DictGet(first, "upload_time", Unknown)
                    /\ docs[k].chunk_count = Cardinality(EntriesOf(docs[k].doc_id))

\* C18 witness: list_documents returned two entries while the store held
\* an entry without doc_id first, the entries of the two documents
\* interleaved, and the first document under two titles.
C18_Witness ==
    /\ op.name = "list_documents"
    /\ Len(ret[2]) = 2
    /\ "doc_id" \notin DOMAIN metadata[1]
    /\ ret[2][1].chunk_count = 2
    /\ ret[2][1].title # DocTitleOf(metadata[Len(metadata)])
    /\ ret[2][1].doc_id = metadata[Len(metadata)].doc_id
    /\ ret[2][2].title = Lit(<<"B">>)
    /\ ret[2][2].upload_time = Unknown

\* C19: the documents_count that get_status reports is the number of
\* document records in memory when there is one at least, and otherwise the
\* number of distinct doc_id values in the stored metadata.
C19_DocumentsCount ==
    op.name = "get_status" =>
        ret[2].documents_count =
            IF Len(documents) > 0 THEN Len(documents)
            ELSE Cardinality({d \in {Uuid4(n) : n \in 1..uuids} :
                                 \E i \in 1..Len(metadata) :
                                     /\ "doc_id" \in DOMAIN metadata[i]
                                     /\ metadata[i].doc_id = d})

\* C19 witness: get_status reported two documents in an agent that holds no
\* record in memory and a store of more than two entries.
C19_Witness ==
    /\ op.name = "get_status"
    /\ documents = <<>>
    /\ ret[2].documents_count = 2
    /\ Len(metadata) > 2

\* C20: a step that is an answer_question call with a question that is
\* empty or has fewer than 3 characters after strip() returns the guidance
\* string, whatever the store holds; one with a longer question on a store
\* without vectors returns the 'no documents' message; neither hands a
\* context to the answer generator.
C20_QuestionGuards ==
    [][\A question \in Questions, gen \in GenOutcomes :
          answer_question(question, gen) =>
              /\ (question = <<>> \/ StrLen(PyStrip(question)) < 3)
                    => ret' = Str(MsgInvalidQuestion) /\ ctx' = None
              /\ (StrLen(PyStrip(question)) >= 3 /\ vectors = <<>>)
                    => ret' = Str(MsgNoDocuments) /\ ctx' = None]_vars

\* C20 witness: answer_question returned the guidance string in an agent
\* whose store holds vectors and whose file holds them too.
C20_Witness ==
    /\ op.name = "answer_question"
    /\ ret = Str(MsgInvalidQuestion)
    /\ ctx = None
    /\ vectors # <<>>
    /\ file.state = "data"

\* C21: every answer_question call returns a string; when the call reaches
\* the answer generator and the generator fails, the string returned holds
\* the text of that failure.
C21_AnswerIsString ==
    [][\A question \in Questions, gen \in GenOutcomes :
          answer_question(question, gen) =>
              /\ ret'[1] = "str"
              /\ (gen = None /\ ctx' # None) =>
                    /\ ret'[2] # <<>>
                    /\ StrContains(ret'[2], GenErrorText)]_vars

\* C21 witness: answer_question handed a context to the generator, the
\* generator failed, and the call returned the string that says so.
C21_Witness ==
    /\ op.name = "answer_question"
    /\ ctx # None
    /\ ret = Str(StrCat(MsgGenerationError, GenErrorText))

\* The sum, over the keywords of the set S, of the occurrences of the keyword
\* in text_lower times 2 for a keyword of the question and times 1 for
\* another one.
RECURSIVE ClaimedScore(_, _, _)
ClaimedScore(text_lower, S, originals) ==
    IF S = {} THEN 0
    ELSE LET keyword == CHOOSE k \in S : TRUE
         IN PyCount(text_lower, keyword) * (IF keyword \in originals THEN 2 ELSE 1)
              + ClaimedScore(text_lower, S \ {keyword}, originals)

\* C22: the score _keyword_search gives a stored chunk is the sum, over the
\* distinct keywords of the expanded keyword set, of the occurrences of the
\* keyword in the lowercased chunk text times the weight, 2.0 for a keyword of
\* the question and 1.0 for one added by expansion only.
C22_KeywordScore ==
    op.name = "_keyword_search" =>
        \A k \in 1..Len(ret[2]) :
            "index" \in DOMAIN ret[2][k] =>
                LET expanded == ExpandedKeywords(op.question)
                    keywords == Keywords(op.question)
                IN ret[2][k].similarity =
                       ClaimedScore(PyLower(metadata[ret[2][k].index + 1].text),
                                    {expanded[i] : i \in 1..Len(expanded)},
                                    {keywords[i] : i \in 1..Len(keywords)})

\* C23: a load() on a file that cannot be unpickled, called on the store
\* directly or by the construction of an agent, returns (None, as always)
\* and leaves vectors and metadata empty and the dimension None; the agent
\* constructed on such a file reports no chunks and is not ready for
\* questions.
C23_CorruptLoadResets ==
    [][(op'.name \in {"load", "restart"} /\ file.state = "corrupt")
          => /\ ret' = PyNone
             /\ TheStore' = EmptyStore
             /\ get_status(documents', TheStore').chunks_count = 0
             /\ ~get_status(documents', TheStore').ready_for_questions]_vars

\* C23 witness: a load() called on the store found a file it could not
\* read, after add_text calls that had stored vectors, and the store is
\* empty.
C23_Witness ==
    /\ op.name = "load"
    /\ file.state = "corrupt"
    /\ adds > 0
    /\ TheStore = EmptyStore

\* C24: an add_document call that passes input validation calls add_text
\* for every chunk and then save() once: what the file holds after the call
\* is the store as it is after the last chunk when save() wrote it, and what
\* it held before the call when save() did not; the file never holds a store
\* taken between two chunks.
C24_SaveOnceAfterChunks ==
    [][(op'.name = "add_document" /\ ret' # PyNone) =>
          /\ Len(op'.results) = Len(documents'[Len(documents')].chunks)
          /\ op'.save \in SaveOutcomes
          /\ op'.save = "ok" => file' = FileOf(TheStore')
          /\ op'.save = "unwritable" => file' = file
          /\ op'.save = "truncated" => file' = FileCorrupt
          /\ (file'.state = "data" /\ file'.data # TheStore') => file' = file]_vars

\* C24 witness: add_document stored a document of two chunks at least and
\* its save() wrote the file, which holds all of them and held none before.
C24_Witness ==
    /\ op.name = "add_document"
    /\ Len(op.results) >= 2
    /\ \A i \in 1..Len(op.results) : op.results[i] # None
    /\ op.save = "ok"
    /\ file = FileOf(TheStore)
    /\ Len(vectors) = Len(op.results)

\* C25: a step that is a call of answer_question, list_documents, get_status,
\* similarity_search, get_by_id or _keyword_search leaves the vectors, the
\* metadata, the dimension, the document records and the file as they were.
C25_ReadsChangeNothing ==
    [][op'.name \in {"answer_question", "list_documents", "get_status",
                      "similarity_search", "get_by_id", "_keyword_search"}
          => UNCHANGED <<vectors, metadata, dimension, documents, file>>]_vars

\* C25 witness: a keyword search found a chunk in a store of two, in an agent
\* whose file does not hold what the store holds.
C25_Witness ==
    /\ op.name = "_keyword_search"
    /\ ret[2] # <<>>
    /\ Len(vectors) = 2
    /\ file = FileOf(EmptyStore)

\* C26: after an add_document call that returned a doc_id, list_documents()
\* has an entry with that doc_id; and every document record in memory has a
\* stored entry with its doc_id.
C26_ReturnedDocumentListed ==
    /\ (op.name = "add_document" /\ ret # PyNone) =>
          \E k \in 1..Len(list_documents(metadata)) :
              list_documents(metadata)[k].doc_id = ret[2]
    /\ \A j \in 1..Len(documents) :
          \E i \in 1..Len(metadata) :
              DictGet(metadata[i], "doc_id", None) = documents[j].doc_id

\* C27: in every state of one agent the documents_count that get_status()
\* reports is the number of entries list_documents() returns.
C27_StatusCountsListed ==
    get_status(documents, TheStore).documents_count = Len(list_documents(metadata))

\* C28: for every entry held in the store, get_by_id of the vector id that
\* add_text returned when it created the entry (the entry's 'id') returns
\* the metadata of that entry.
C28_GetByIdFindsEntry ==
    \A i \in 1..Len(metadata) : get_by_id(TheStore, metadata[i].id) = Some(metadata[i])

\* C29: in every state of one agent, the stored entries of one doc_id lie
\* at contiguous positions of the store and their chunk_index grows with
\* the position.
C29_ChunksContiguousOrdered ==
    \A i, j \in 1..Len(metadata) :
        (i < j /\ metadata[i].doc_id = metadata[j].doc_id) =>
            /\ \A k \in i..j : metadata[k].doc_id = metadata[i].doc_id
            /\ metadata[i].chunk_index < metadata[j].chunk_index

\* C29 witness: the store holds the chunks of two documents, three entries
\* at least, after add_document stored a document without its chunk 0 (whose
\* embedding failed) behind the chunks of another one.
C29_Witness ==
    /\ op.name = "add_document"
    /\ Len(metadata) >= 3
    /\ metadata[1].doc_id # metadata[Len(metadata)].doc_id
    /\ \E i \in 2..Len(metadata) :
          /\ metadata[i].doc_id # metadata[i - 1].doc_id
          /\ metadata[i].chunk_index = 1

\* the least advance of the window start with the default parameters
MinAdvance == DefaultChunkSize - (ScanWindow - 1) - DefaultOverlap

\* C30: in a _chunk_text call with the default parameters every iteration of
\* the loop ends without an exception and moves the window start forward by
\* 401 characters at least, so that the loop is left after at most
\* len(text) / 401 + 1 iterations.
C30_DefaultChunkingAdvances ==
    [][(/\ op.name = "_chunk_text"
        /\ op.chunk_size = DefaultChunkSize
        /\ op.overlap = DefaultOverlap
        /\ op.pc = "loop")
          => /\ Len(ret[2]) < MaxChunks
             /\ op'.pc # "raised"
             /\ MinAdvance = 401
             /\ op'.start >= op.start + MinAdvance
             /\ Len(op'.ranges) = Len(op.ranges) + 1
             /\ Len(op'.ranges) * MinAdvance <= op'.start
             /\ op'.pc = "loop" => op'.start < StrLen(op.text)]_vars

\* C30 witness: a call with the default parameters returned after an iteration
\* that moved the window start by exactly 401 characters.
C30_Witness ==
    /\ op.name = "_chunk_text"
    /\ op.chunk_size = DefaultChunkSize
    /\ op.overlap = DefaultOverlap
    /\ op.pc = "done"
    /\ \E k \in 2..Len(op.ranges) : op.ranges[k][1] = op.ranges[k - 1][1] + 401

====
